---- MODULE Spec2Model ----
(***************************************************************************)
(* State-machine model of the two React components of the scoreboard       *)
(* submission UI: TeamPage (src/src/pages/TeamPage.tsx) and TopBar         *)
(* (src/unnamed/part_000).                                                 *)
(*                                                                         *)
(* JavaScript runs one task at a time, so every synchronous segment of a   *)
(* handler (from its start, or from the continuation of an await, up to    *)
(* the next await or its end) is one atomic action.  A handler that is     *)
(* suspended at an await is an element of `runs` (handleSubmit) or of      *)
(* `compressions` (handleFileChange / the paste handlers).  React          *)
(* re-renders after each segment, so the rendered button is recomputed by  *)
(* every action that changes `submitting`.                                 *)
(*                                                                         *)
(* The environment is the user and the two services.  User events arrive   *)
(* in any order and at any time, also while handlers are suspended; a      *)
(* submit event needs the enabled submit button but is not held back by    *)
(* the `required` attributes of the inputs, so handleSubmit is entered     *)
(* with every form state its own checks have to deal with.  The backend    *)
(* answers every call with or without an error.                            *)
(***************************************************************************)
EXTENDS Integers, Sequences, FiniteSets, Bags, TLC

VARIABLES
    teamId,         \* prop of TeamPage
    imageFile,      \* useState<File | null>(null)
    imagePreview,   \* useState('')
    mapNumber,      \* useState<number>(1)
    placement,      \* useState<number>(0)
    playerKills,    \* useState(['', '', ''])
    submitting,     \* useState(false)
    button,         \* the rendered <button type="submit">
    compressions,   \* bag of image handlers suspended in `await imageCompression`
    runs,           \* handleSubmit invocations suspended in a backend call
    alert,          \* the alert() shown by the step just taken ("" if none)
    response,       \* history: how the backend answered the run that ended in
                    \* the step just taken ("none" if no run ended)
    lastSelection,  \* history: images of the latest selection event
    selectedMap,    \* prop of TopBar
    topBar,         \* the buttons TopBar rendered
    clicked,        \* history: key of the TopBar button clicked last (0: none)
    onSelectMapArg  \* argument of the latest onSelectMap call (0: none yet)

teamVars == <<teamId, imageFile, imagePreview, mapNumber, placement, playerKills,
              submitting, button, compressions, runs, alert, response,
              lastSelection>>
topVars == <<selectedMap, topBar, clicked, onSelectMapArg>>
vars == <<teamId, imageFile, imagePreview, mapNumber, placement, playerKills,
          submitting, button, compressions, runs, alert, response,
          lastSelection, selectedMap, topBar, clicked, onSelectMapArg>>

----------------------------------------------------------------------------
(* Bounds of the model *)

MaxMap == 2           \* submissions are accepted while mapNumber < MaxMap
MaxPending == 2       \* image handlers suspended at the same time
MaxSelectedMap == 16  \* selectedMap ranges over 0..MaxSelectedMap

(* Program constants *)

NumMaps == 15         \* Array.from({ length: 15 }, ...)
NumPlayers == 3       \* ['Player 1', 'Player 2', 'Player 3']

----------------------------------------------------------------------------
(* Values *)

\* null, for the values that are otherwise records
Null == [null |-> TRUE]

\* NaN, encoded as a number no string of the model's alphabet denotes
NaN == -1

NoImageAlert == "Please upload or paste a scoreboard image."
InvalidKillsAlert == "Please enter valid numbers for player kills."
SuccessAlert == "Submission uploaded successfully!"
FailureAlert == "Failed to submit. Check console for details."

Digits == <<"0", "1", "2", "3", "4", "5", "6", "7", "8", "9">>

IsDigit(c) == \E i \in DOMAIN Digits : Digits[i] = c

DigitValue(c) == (CHOOSE i \in DOMAIN Digits : Digits[i] = c) - 1

(* Number(s) of a string s, given as its sequence of characters: the empty *)
(* string is 0, a string of decimal digits is its value, any other string  *)
(* of the alphabet used here is NaN.                                       *)
RECURSIVE DecimalValue(_)
DecimalValue(s) ==
    IF s = <<>> THEN 0
    ELSE 10 * DecimalValue(SubSeq(s, 1, Len(s) - 1)) + DigitValue(s[Len(s)])

Number(s) ==
    IF \A i \in DOMAIN s : IsDigit(s[i]) THEN DecimalValue(s) ELSE NaN

isNaN(x) == x = NaN

(* The text of a number below 10, as the DOM reports it in e.target.value *)
Text(n) == <<Digits[n + 1]>>

(* Files the user can choose or paste *)
Files == {"a.png", "b.png"}

File(name) == [name |-> name, compressed |-> FALSE]

(* The files imageCompression can compress; for the others it rejects *)
Compressible == {"a.png"}

(* imageCompression(file, compressionOptions), when it resolves *)
Compress(file) == [name |-> file.name, compressed |-> TRUE]

(* URL.createObjectURL(file) *)
createObjectURL(file) == [blob |-> file]

(* The empty string '' as a preview URL *)
EmptyUrl == [blob |-> Null]

----------------------------------------------------------------------------
(* Inputs of the user events *)

\* The teamId prop
TeamIds == {7}

\* The values Date.now() returns
Timestamps == {1717, 1718}

\* The edits of the three kill-count inputs: the input's index and its
\* e.target.value.  The user types a number for players 1 and 3, text that is
\* no number for player 2, and can clear each input again.
KillEdits ==
    {<<1, <<"1", "2">>>>, <<1, <<>>>>,
     <<2, <<"x">>>>, <<2, <<>>>>,
     <<3, <<"7">>>>, <<3, <<>>>>}

\* e.target.value of the map-number input: the user types a map of 1..MaxMap
MapInputs == {Text(n) : n \in 1..MaxMap}

\* e.target.value of the placement select: of the option values "1".."16"
\* the user picks the last
PlacementInputs == {<<"1", "6">>}

\* e.target.files of the file input: empty, or one file
FileInputs == {<<>>} \cup {<<File(f)>> : f \in Files}

TextItem == [type |-> "text/plain", file |-> Null]
ImageItem(f) == [type |-> "image/png", file |-> File(f)]

\* e.clipboardData of a paste event: null, or its items
Clipboards ==
    {Null} \cup
    {[items |-> items] :
        items \in {<<TextItem>>, <<ImageItem("a.png")>>,
                   <<TextItem, ImageItem("b.png")>>}}

----------------------------------------------------------------------------
(* Image selection: handleFileChange, processPastedImage and the paste     *)
(* handlers                                                                *)

\* item.type.indexOf('image') !== -1
IsImageType(type) == type \in {"image/png", "image/jpeg"}

\* The files the paste loop hands to processPastedImage, in order
RECURSIVE PastedFiles(_)
PastedFiles(items) ==
    IF items = <<>> THEN <<>>
    ELSE LET item == Head(items)
             rest == PastedFiles(Tail(items))
         IN  IF IsImageType(item.type) /\ item.file # Null
             THEN <<item.file>> \o rest
             ELSE rest

RemoveAt(seq, i) == SubSeq(seq, 1, i - 1) \o SubSeq(seq, i + 1, Len(seq))

NamesOf(files) == {files[i].name : i \in DOMAIN files}

\* A handler reaches `await imageCompression(file, ...)` for the first of
\* `files` and is suspended there; with no file it returns at once.
StartCompression(files) ==
    /\ compressions' = IF files = <<>> THEN compressions
                       ELSE compressions (+) SetToBag({files})
    /\ lastSelection' = IF files = <<>> THEN lastSelection ELSE NamesOf(files)
    /\ alert' = ""
    /\ response' = "none"
    /\ UNCHANGED <<teamId, imageFile, imagePreview, mapNumber, placement,
                   playerKills, submitting, button, runs>>

handleFileChange ==
    /\ BagCardinality(compressions) < MaxPending
    /\ \E files \in FileInputs :
         StartCompression(IF files = <<>> THEN <<>> ELSE <<files[1]>>)
    /\ UNCHANGED topVars

\* A paste into the textarea: the global listener returns at once because
\* the textarea is document.activeElement.
handleTextareaPaste ==
    /\ BagCardinality(compressions) < MaxPending
    /\ \E clipboardData \in Clipboards :
         StartCompression(IF clipboardData = Null THEN <<>>
                          ELSE PastedFiles(clipboardData.items))
    /\ UNCHANGED topVars

\* A paste anywhere else: only the window listener handles it.
handleGlobalPaste ==
    /\ BagCardinality(compressions) < MaxPending
    /\ \E clipboardData \in Clipboards :
         StartCompression(IF clipboardData = Null THEN <<>>
                          ELSE PastedFiles(clipboardData.items))
    /\ UNCHANGED topVars

\* The file a handler stores when its compression settles: the compressed
\* file, or the original one from the catch block.
StoredFile(file, resolved) == IF resolved THEN Compress(file) ELSE file

\* imageCompression settles for one of the suspended handlers, which stores the
\* file and its preview and then goes on to its next pasted image, if any.
CompressionSettles ==
    /\ \E files \in BagToSet(compressions) :
         LET resolved == Head(files).name \in Compressible
             stored == StoredFile(Head(files), resolved)
             others == compressions (-) SetToBag({files})
         IN  /\ imageFile' = stored
             /\ imagePreview' = createObjectURL(stored)
             /\ compressions' = IF Tail(files) = <<>> THEN others
                                ELSE others (+) SetToBag({Tail(files)})
    /\ alert' = ""
    /\ response' = "none"
    /\ UNCHANGED <<teamId, mapNumber, placement, playerKills, submitting, button,
                   runs, lastSelection>>
    /\ UNCHANGED topVars

----------------------------------------------------------------------------
(* Controlled form inputs *)

EditFrame ==
    /\ alert' = ""
    /\ response' = "none"
    /\ UNCHANGED <<teamId, imageFile, imagePreview, submitting, button,
                   compressions, runs, lastSelection>>
    /\ UNCHANGED topVars

\* onChange={e => setMapNumber(Number(e.target.value))}
setMapNumber ==
    /\ \E value \in MapInputs : mapNumber' = Number(value)
    /\ UNCHANGED <<placement, playerKills>>
    /\ EditFrame

\* onChange={e => setPlacement(Number(e.target.value))}
setPlacement ==
    /\ \E value \in PlacementInputs : placement' = Number(value)
    /\ UNCHANGED <<mapNumber, playerKills>>
    /\ EditFrame

\* onChange={e => setPlayerKills(prev => { copy[idx] = e.target.value ... })}
setPlayerKills ==
    /\ \E edit \in KillEdits :
         LET idx == edit[1]
             value == edit[2]
         IN  playerKills' = [playerKills EXCEPT ![idx] = value]
    /\ UNCHANGED <<mapNumber, placement>>
    /\ EditFrame

----------------------------------------------------------------------------
(* Form submission: handleSubmit *)

\* Mutant: the button is rendered without its disabled attribute
RenderButton_NeverDisabled(flag) ==
    [disabled |-> FALSE,
     label |-> IF flag THEN "Submitting..." ELSE "Submit Score"]

\* <button type="submit" disabled={submitting}>
RenderButton(flag) ==
    [disabled |-> flag,
     label |-> IF flag THEN "Submitting..." ELSE "Submit Score"]

\* Mutant: submit events also reach the handler while the button is disabled
SubmitEnabled_Always == TRUE

\* The form dispatches a submit event only through an enabled submit button
SubmitEnabled == ~button.disabled

\* playerKills.map(k => k === '' ? 0 : Number(k))
KillsNums(kills) ==
    [i \in 1..NumPlayers |-> IF kills[i] = <<>> THEN 0 ELSE Number(kills[i])]

\* Mutant: the kill counts are not validated
KillsValid_Unchecked(killsNums) == TRUE

\* !killsNums.some(isNaN)
KillsValid(killsNums) == ~ \E i \in DOMAIN killsNums : isNaN(killsNums[i])

\* `team${teamId}_map${mapNumber}_${Date.now()}.jpg`
FileName(team, map, now) ==
    <<"team", team, "_map", map, "_", now, ".jpg">>

\* supabase.storage.from('scoreboards').getPublicUrl(fileName).data.publicUrl
getPublicUrl(fileName) == [bucket |-> "scoreboards", path |-> fileName]

\* Mutant: the row is built from the form as it is when the upload returns
InsertRow_Current(run) ==
    [team_id |-> teamId,
     map_number |-> mapNumber,
     player1_kills |-> KillsNums(playerKills)[1],
     player2_kills |-> KillsNums(playerKills)[2],
     player3_kills |-> KillsNums(playerKills)[3],
     placement |-> placement,
     scoreboard_image_url |-> getPublicUrl(run.fileName)]

\* The row handed to supabase.from('submissions').insert(...): every value
\* is the one handleSubmit's closure captured when the submit event fired.
InsertRow(run) ==
    [team_id |-> run.teamId,
     map_number |-> run.mapNumber,
     player1_kills |-> run.killsNums[1],
     player2_kills |-> run.killsNums[2],
     player3_kills |-> run.killsNums[3],
     placement |-> run.placement,
     scoreboard_image_url |-> getPublicUrl(run.fileName)]

\* Mutant: the error of a backend response is not checked
Throws_Never(error) == FALSE

\* if (error) throw error
Throws(error) == error

\* Mutant: the reset leaves the map number alone
NextMapNumber_Same(prev) == prev

\* setMapNumber(prev => prev + 1)
NextMapNumber(prev) == prev + 1

Form ==
    [mapNumber |-> mapNumber, placement |-> placement,
     playerKills |-> playerKills, imageFile |-> imageFile,
     imagePreview |-> imagePreview]

\* The "Reset form" block at the end of the try block
ResetForm(form) ==
    [mapNumber |-> NextMapNumber(form.mapNumber), placement |-> 0,
     playerKills |-> [i \in 1..NumPlayers |-> <<>>], imageFile |-> Null,
     imagePreview |-> EmptyUrl]

\* Mutant: the form is reset in the finally block
FormAfter_AlwaysReset(threw, form) == ResetForm(form)

\* The form when handleSubmit ends: reset at the end of the try block,
\* untouched by the catch block.
FormAfter(threw, form) == IF threw THEN form ELSE ResetForm(form)

\* The alert of the try block's end, or of the catch block
AlertAfter(threw) == IF threw THEN FailureAlert ELSE SuccessAlert

\* Mutant: setSubmitting(false) at the end of the try block, not in finally
SubmittingAfter_TryOnly(threw) == threw

\* finally { setSubmitting(false) }
SubmittingAfter(threw) == FALSE

handleSubmit ==
    /\ SubmitEnabled
    /\ mapNumber < MaxMap
    /\ IF imageFile = Null
       THEN /\ alert' = NoImageAlert
            /\ UNCHANGED <<submitting, button, runs>>
       ELSE IF ~KillsValid(KillsNums(playerKills))
       THEN /\ alert' = InvalidKillsAlert
            /\ UNCHANGED <<submitting, button, runs>>
       ELSE /\ alert' = ""
            /\ submitting' = TRUE
            /\ button' = RenderButton(TRUE)
            /\ \E now \in Timestamps :
                 LET fileName == FileName(teamId, mapNumber, now)
                 IN  runs' = Append(runs,
                        [pc |-> "upload",
                         teamId |-> teamId,
                         mapNumber |-> mapNumber,
                         placement |-> placement,
                         killsNums |-> KillsNums(playerKills),
                         fileName |-> fileName,
                         request |-> [op |-> "upload", bucket |-> "scoreboards",
                                      path |-> fileName, body |-> imageFile],
                         \* history of this run
                         atSubmit |-> [teamId |-> teamId, mapNumber |-> mapNumber,
                                      placement |-> placement,
                                      playerKills |-> playerKills, now |-> now],
                         upload |-> "pending",
                         insert |-> "none",
                         inserts |-> 0])
    /\ response' = "none"
    /\ UNCHANGED <<teamId, imageFile, imagePreview, mapNumber, placement,
                   playerKills, compressions, lastSelection>>
    /\ UNCHANGED topVars

\* The i-th run leaves handleSubmit: the end of the try block or the catch
\* block, then the finally block.
Settle(i, run, threw) ==
    LET after == FormAfter(threw, Form)
    IN  /\ mapNumber' = after.mapNumber
        /\ placement' = after.placement
        /\ playerKills' = after.playerKills
        /\ imageFile' = after.imageFile
        /\ imagePreview' = after.imagePreview
        /\ alert' = AlertAfter(threw)
        /\ response' = IF "error" \in {run.upload, run.insert} THEN "error" ELSE "ok"
        /\ submitting' = SubmittingAfter(threw)
        /\ button' = RenderButton(submitting')
        /\ runs' = RemoveAt(runs, i)
        /\ lastSelection' = IF imageFile' = Null THEN {} ELSE lastSelection
        /\ UNCHANGED <<teamId, compressions>>

Status(error) == IF error THEN "error" ELSE "ok"

\* The storage upload of the i-th run returns
UploadReturns ==
    /\ \E i \in DOMAIN runs : \E error \in BOOLEAN :
         LET run == [runs[i] EXCEPT !.upload = Status(error)]
         IN  /\ runs[i].pc = "upload"
             /\ IF Throws(error)
                THEN Settle(i, run, TRUE)
                ELSE /\ runs' = [runs EXCEPT ![i] =
                            [run EXCEPT
                               !.pc = "insert",
                               !.request = [op |-> "insert", table |-> "submissions",
                                            row |-> InsertRow(run)],
                               !.insert = "pending",
                               !.inserts = @ + 1]]
                     /\ alert' = ""
                     /\ response' = "none"
                     /\ UNCHANGED <<teamId, imageFile, imagePreview, mapNumber,
                                    placement, playerKills, submitting, button,
                                    compressions, lastSelection>>
    /\ UNCHANGED topVars

\* The insert of the i-th run returns
InsertReturns ==
    /\ \E i \in DOMAIN runs : \E error \in BOOLEAN :
         LET run == [runs[i] EXCEPT !.insert = Status(error)]
         IN  /\ runs[i].pc = "insert"
             /\ Settle(i, run, Throws(error))
    /\ UNCHANGED topVars

----------------------------------------------------------------------------
(* TopBar *)

\* Mutant: the maps are numbered from 0
MapNumberOf_ZeroBased(index) == index

\* const mapNumber = index + 1
MapNumberOf(index) == index + 1

\* The buttons TopBar renders, by the index of Array.from({ length: 15 })
TopBar(selected) ==
    [index \in 0..(NumMaps - 1) |->
        [key |-> MapNumberOf(index),
         className |-> IF selected = MapNumberOf(index)
                       THEN <<"map-button", "selected">>
                       ELSE <<"map-button", "">>,
         onClick |-> MapNumberOf(index),
         text |-> <<"Map", MapNumberOf(index)>>]]

\* The parent renders TopBar with some selectedMap
RenderTopBar ==
    /\ \E selected \in 0..MaxSelectedMap :
         /\ selectedMap' = selected
         /\ topBar' = TopBar(selected)
    /\ UNCHANGED <<clicked, onSelectMapArg>>
    /\ UNCHANGED teamVars

\* onClick={() => onSelectMap(mapNumber)}
ClickMapButton ==
    /\ \E index \in DOMAIN topBar :
         /\ clicked' = topBar[index].key
         /\ onSelectMapArg' = topBar[index].onClick
    /\ UNCHANGED <<selectedMap, topBar>>
    /\ UNCHANGED teamVars

----------------------------------------------------------------------------
(* Specifications *)

TeamPageInit ==
    /\ teamId \in TeamIds
    /\ imageFile = Null
    /\ imagePreview = EmptyUrl
    /\ mapNumber = 1
    /\ placement = 0
    /\ playerKills = [i \in 1..NumPlayers |-> <<>>]
    /\ submitting = FALSE
    /\ button = RenderButton(FALSE)
    /\ compressions = EmptyBag
    /\ runs = <<>>
    /\ alert = ""
    /\ response = "none"
    /\ lastSelection = {}

TopBarInit ==
    /\ selectedMap \in 0..MaxSelectedMap
    /\ topBar = TopBar(selectedMap)
    /\ clicked = 0
    /\ onSelectMapArg = 0

\* TeamPage, next to a TopBar that is rendered once and left alone
Init ==
    /\ TeamPageInit
    /\ selectedMap = 1
    /\ topBar = TopBar(selectedMap)
    /\ clicked = 0
    /\ onSelectMapArg = 0

Next ==
    \/ handleFileChange
    \/ handleTextareaPaste
    \/ handleGlobalPaste
    \/ CompressionSettles
    \/ setMapNumber
    \/ setPlacement
    \/ setPlayerKills
    \/ handleSubmit
    \/ UploadReturns
    \/ InsertReturns

Spec == Init /\ [][Next]_vars

\* The backend calls return: every pending upload or insert is answered
FairSpec == Spec /\ WF_vars(UploadReturns) /\ WF_vars(InsertReturns)

\* TopBar, next to a TeamPage nobody touches
TopBarSpecInit == TeamPageInit /\ TopBarInit

TopBarNext == RenderTopBar \/ ClickMapButton

TopBarSpec == TopBarSpecInit /\ [][TopBarNext]_vars

----------------------------------------------------------------------------
(* Properties *)

EmptyKills == [i \in 1..NumPlayers |-> <<>>]

\* A kill-count string that is empty or a decimal number
IsNumeric(k) == \A j \in DOMAIN k : k[j] \in {Digits[d] : d \in DOMAIN Digits}

\* The numeric value the claims give a kill-count string: '' counts as 0
KillValue(k) == IF k = <<>> THEN 0 ELSE DecimalValue(k)

\* The file name and the record a run is to write, from the submit event alone
ExpectedFileName(at) ==
    <<"team", at.teamId, "_map", at.mapNumber, "_", at.now, ".jpg">>

ExpectedRow(at) ==
    [team_id |-> at.teamId,
     map_number |-> at.mapNumber,
     player1_kills |-> KillValue(at.playerKills[1]),
     player2_kills |-> KillValue(at.playerKills[2]),
     player3_kills |-> KillValue(at.playerKills[3]),
     placement |-> at.placement,
     scoreboard_image_url |->
        [bucket |-> "scoreboards", path |-> ExpectedFileName(at)]]

\* C1: the submit button is disabled exactly while a submission is in
\* progress: `submitting` is true exactly in the states in which a
\* handleSubmit run is between its validation and its end, and the button's
\* disabled attribute equals `submitting`.
C1_DisabledWhileSubmitting ==
    /\ submitting <=> runs # <<>>
    /\ button.disabled = submitting

C1_Witness ==
    /\ submitting
    /\ button.disabled
    /\ Len(runs) = 1
    /\ runs[1].pc = "insert"

\* C2: at most one backend operation (storage upload or row insert) is in
\* flight at any time: no second handleSubmit run starts before the earlier
\* one has ended.
C2_OneOperationInFlight ==
    Cardinality({i \in DOMAIN runs : runs[i].request.op \in {"upload", "insert"}}) <= 1

\* A run is in flight while the form holds everything a second run would need
C2_Witness ==
    /\ Len(runs) = 1
    /\ runs[1].pc = "upload"
    /\ imageFile # Null
    /\ KillsValid(KillsNums(playerKills))
    /\ mapNumber < MaxMap
    /\ ~SubmitEnabled

\* C3: within one run the insert is issued at most once and only after the
\* upload of that run has returned without error; a run whose upload returns
\* an error ends without any insert, and a run whose upload and insert both
\* succeed has issued exactly one insert.
C3_InsertOnceAfterUpload ==
    [][/\ \A i \in DOMAIN runs' :
            /\ runs'[i].inserts <= 1
            /\ runs'[i].inserts = 1 <=> runs'[i].pc = "insert"
            /\ runs'[i].inserts = 1 => runs'[i].upload = "ok"
       /\ response' # "none" =>
            \E i \in DOMAIN runs :
                /\ runs' = RemoveAt(runs, i)
                /\ runs[i].pc = "upload" => (response' = "error" /\ runs[i].inserts = 0)
                /\ response' = "ok" => (runs[i].pc = "insert" /\ runs[i].inserts = 1)
      ]_vars

C3_Witness ==
    /\ response = "ok"
    /\ alert = SuccessAlert
    /\ runs = <<>>

C6_TopBarButtons ==
    LET marked == {index \in DOMAIN topBar : topBar[index].className[2] = "selected"}
    IN  /\ Cardinality(DOMAIN topBar) = 15
        /\ {topBar[index].key : index \in DOMAIN topBar} = 1..15
        /\ \A index \in DOMAIN topBar :
              /\ topBar[index].onClick = topBar[index].key
              /\ index \in marked <=> selectedMap = topBar[index].key
        /\ Cardinality(marked) <= 1
        /\ selectedMap \in 1..15 => Cardinality(marked) = 1
        /\ onSelectMapArg = clicked

C6_Witness ==
    /\ selectedMap = 15
    /\ topBar[14].className = <<"map-button", "selected">>
    /\ clicked = 1
    /\ onSelectMapArg = 1

\* C7: every submission that sets `submitting` eventually sets it back to
\* false, whichever way the backend answers, provided the backend answers.
C7_SubmittingEnds == submitting ~> ~submitting

C7_Witness ==
    /\ submitting
    /\ Len(runs) = 1
    /\ runs[1].pc = "upload"
    /\ runs[1].upload = "pending"

\* C8: a submit event with no image file, or with a kill-count string that is
\* neither empty nor a number, only shows an alert: no run starts,
\* `submitting` stays false, and map number, placement, kill counts, image
\* file and preview are unchanged.
C8_RejectedSubmitHasNoEffect ==
    [][/\ alert' \in {NoImageAlert, InvalidKillsAlert} =>
            /\ Form' = Form
            /\ runs' = runs
            /\ ~submitting'
            /\ submitting' = submitting
            /\ button' = button
       /\ Len(runs') > Len(runs) =>
            /\ imageFile # Null
            /\ \A i \in 1..NumPlayers : IsNumeric(playerKills[i])
      ]_vars

C8_Witness ==
    /\ alert = InvalidKillsAlert
    /\ imageFile # Null
    /\ playerKills[2] = <<"x">>
    /\ runs = <<>>
    /\ ~submitting

\* C9, as claimed: after a successful submission placement is 0, the kill
\* counts are empty, image file and preview are cleared, and the map number
\* is one greater than the map_number of the record just inserted.
C9_AsClaimed ==
    [][response' = "ok" =>
          /\ placement' = 0
          /\ playerKills' = EmptyKills
          /\ imageFile' = Null
          /\ imagePreview' = EmptyUrl
          /\ \E i \in DOMAIN runs :
                /\ runs' = RemoveAt(runs, i)
                /\ mapNumber' = runs[i].request.row.map_number + 1
      ]_vars

\* C9, amended: after a successful submission placement is 0, the kill
\* counts are empty, image file and preview are cleared, and the map number
\* is one greater than the form's map number was when the insert returned.
C9_ResetAdvancesFormMap ==
    [][response' = "ok" =>
          /\ placement' = 0
          /\ playerKills' = EmptyKills
          /\ imageFile' = Null
          /\ imagePreview' = EmptyUrl
          /\ mapNumber' = mapNumber + 1
      ]_vars

\* The form after a success whose map number was edited while in flight
C9_Witness ==
    /\ response = "ok"
    /\ mapNumber = MaxMap + 1
    /\ placement = 0
    /\ playerKills = EmptyKills
    /\ imageFile = Null

\* C10, as claimed: once every compression has settled, and with no
\* successful submission since the latest selection, the image file comes
\* from the latest selection event and the preview shows that file.
C10_LatestSelectionWins ==
    (compressions = EmptyBag /\ lastSelection # {}) =>
        /\ imageFile # Null
        /\ imageFile.name \in lastSelection
        /\ imagePreview = createObjectURL(imageFile)

====
